---- MODULE Spec2Model ----
(***************************************************************************)
(* State-machine model of the incremental sales-report pipeline:           *)
(*   app/file_process/file_manager.py      FileManager                     *)
(*   app/file_process/sales_monitor.py     SalesMonitor                    *)
(*   app/file_process/report_generator.py  DataProcessor, ReportGenerator  *)
(*                                                                         *)
(* Python values are modelled as follows.  None is the empty tuple.  A     *)
(* cell of a column that can hold NaN/NaT is the empty tuple when it is    *)
(* NaN and <<v>> when it holds v.  A call that may raise returns a record  *)
(* whose field exc is "OK" or the name of the exception class.             *)
(* A file name is a record [stem, ymd, ext]: stem is the sequence of the   *)
(* characters before the date, ymd is <<>> when the name embeds no         *)
(* dddd-dd-dd group and <<y, m, d>> when it does, ext is the extension.    *)
(* A DataFrame is a record [columns, rows]; a cell of a column the frame   *)
(* (or the frame a row came from) does not have holds NaN, as after        *)
(* pd.concat.  Sales amounts are integers counting tenths.                 *)
(***************************************************************************)
EXTENDS Integers, Sequences, FiniteSets, TLC

VARIABLES
    directory,        \* os.listdir(self.directory): sequence of file names
    record_file,      \* content of record_file_path, None when it does not exist
    report_file,      \* content of sales_report.json, None when it does not exist
    archive,          \* copies under <directory>/report_archive, oldest first
    model_store,      \* the model artifact category_anomaly_models.pkl
    today,            \* datetime.now().date(), a day number
    all_files,        \* SalesMonitor.all_files (keys, in dict order)
    report_generator, \* SalesMonitor.report_generator, None or a ReportGenerator
    pc,               \* "new": no monitor yet; "idle": the monitor awaits a trigger;
                      \* "returned": a handler has just returned
    log,              \* records logged by the handler call that just returned
    raised            \* exception the handler call that just returned let escape

vars == <<directory, record_file, report_file, archive, model_store, today,
          all_files, report_generator, pc, log, raised>>

None == <<>>
NaN == <<>>
Cell(v) == <<v>>
OK == "OK"

Ret(v) == [exc |-> OK, val |-> v]
Raise(e) == [exc |-> e, val |-> None]

Last(s) == s[Len(s)]

\* Bind(v, F) is F(v), with v evaluated once whatever the uses F makes of it
\* (LET x == v IN F(x), as a call by value).
Bind(v, F(_)) == CHOOSE r \in {F(x) : x \in {v}} : TRUE
SeqToSet(s) == {s[i] : i \in 1..Len(s)}

----------------------------------------------------------------------------
(* Bounds of the model *)

MaxDirLen == 2        \* files the batch directory may come to hold
MaxFaults == 1        \* fault points that may fail within one handler call
MaxRows == 3          \* rows of the Dataset beyond which no cycle is triggered
MaxArchive == 1       \* archived copies beyond which no cycle is triggered

----------------------------------------------------------------------------
(* File names *)

Name(stem, ymd, ext) == [stem |-> stem, ymd |-> ymd, ext |-> ext]

\* The file names the environment may put in the batch directory.
FileNames ==
    { Name(<<"s", "_">>, <<2024, 1, 1>>, ".csv"),    \* s_2024-01-01.csv
      Name(<<"s", "_">>, <<2024, 1, 2>>, ".csv"),    \* s_2024-01-02.csv
      Name(<<"b", "_">>, <<2024, 1, 2>>, ".csv"),    \* b_2024-01-02.csv
      Name(<<"s", " ">>, <<2024, 1, 3>>, ".csv"),    \* "s 2024-01-03.csv"
      Name(<<"s", "_">>, <<2024, 13, 1>>, ".csv"),   \* s_2024-13-01.csv
      Name(<<"s", "_">>, <<>>, ".csv"),              \* s_.csv
      Name(<<"s", "_">>, <<2024, 1, 3>>, ".txt") }   \* s_2024-01-03.txt

\* datetime(y, m, d) raises ValueError unless the month and the day exist.
DaysInMonth(y, m) ==
    IF m \in {4, 6, 9, 11} THEN 30
    ELSE IF m = 2 THEN (IF y % 4 = 0 /\ (y % 100 # 0 \/ y % 400 = 0) THEN 29 ELSE 28)
    ELSE 31

IsDate(ymd) ==
    /\ ymd[1] \in 1..9999
    /\ ymd[2] \in 1..12
    /\ ymd[3] \in 1..DaysInMonth(ymd[1], ymd[2])

\* d1 < d2 on datetime values <<y, m, d>>
DateLess(d1, d2) ==
    \/ d1[1] < d2[1]
    \/ d1[1] = d2[1] /\ d1[2] < d2[2]
    \/ d1[1] = d2[1] /\ d1[2] = d2[2] /\ d1[3] < d2[3]

\* SalesMonitor.extract_date_from_filename: re.search for dddd-dd-dd, then
\* datetime(...) of the three groups.
extract_date_from_filename(filename) ==
    IF filename.ymd = <<>> THEN Ret(None)
    ELSE IF IsDate(filename.ymd) THEN Ret(filename.ymd)
    ELSE Raise("ValueError")

\* str.endswith(".csv")
endswith_csv(filename) == filename.ext = ".csv"

\* The characters the class [\w\-.] of the default filename_pattern accepts,
\* among those the stems of FileNames are written with.
WordChars == {"s", "b", "_", "-", "."}

\* re.fullmatch(r"^[\w\-.]+\.csv$", filename): the digits and dashes of an
\* embedded date are in the class, so the stem and the extension decide.
fullmatch_filename_pattern(filename) ==
    /\ \A i \in 1..Len(filename.stem) : filename.stem[i] \in WordChars
    /\ filename.ext = ".csv"

\* str.strip() of the record's content: leading blanks of the stem go (the
\* extension ends every name, so there is no trailing blank).
RECURSIVE lstrip(_)
lstrip(chars) ==
    IF chars # <<>> /\ Head(chars) = " " THEN lstrip(Tail(chars)) ELSE chars

strip(filename) == [filename EXCEPT !.stem = lstrip(@)]

----------------------------------------------------------------------------
(* FileManager *)

\* The points at which the environment can make a call fail.
FaultPoints ==
    { "listdir",          \* os.listdir raises (directory missing or unreadable)
      "read_record",      \* open/read of the record file raises OSError
      "write_record",     \* makedirs/open/write of the record file raises OSError
      "makedirs",         \* os.makedirs of the archive directory raises
      "copy2",            \* shutil.copy2 raises
      "read_csv",         \* pd.read_csv / map_categories raises on a batch
      "aggregate",        \* the aggregation of generate_report raises
      "save_report" }     \* json.dumps / open / write of the report raises

Faults == {F \in SUBSET FaultPoints : Cardinality(F) <= MaxFaults}

\* A reader that answers None when reading the record fails.
get_last_processed_file_none_on_error(record, faults) ==
    IF record = None THEN Ret(None)
    ELSE IF "read_record" \in faults THEN Ret(None)
    ELSE Ret(strip(record))

\* FileManager.get_last_processed_file
get_last_processed_file(record, faults) ==
    IF record = None THEN Ret(None)
    ELSE IF "read_record" \in faults THEN Raise("RuntimeError: Error reading file")
    ELSE Ret(strip(record))

\* The filename_pattern arguments: the default r"^[\w\-.]+\.csv$" and a
\* pattern of the caller, r".+\.csv".
FilenamePatterns == {"default", "any_csv"}

\* re.fullmatch(filename_pattern, filename)
fullmatch(filename_pattern, filename) ==
    IF filename_pattern = "default" THEN fullmatch_filename_pattern(filename)
    ELSE filename.ext = ".csv"

\* A writer that validates the name after it has written it.
write_last_processed_file_then_validate(filename, record, filename_pattern, dir_exists, faults) ==
    IF "write_record" \in faults
    THEN [exc |-> "OSError: Error writing file", val |-> record, makedirs |-> FALSE]
    ELSE [exc |-> IF fullmatch(filename_pattern, filename) THEN OK
                  ELSE "ValueError: Invalid filename format",
          val |-> filename, makedirs |-> ~dir_exists]

\* FileManager.set_last_processed_file(filename, file_path, filename_pattern);
\* dir_exists says whether the parent directory of the record is there.  val
\* is the new content of the record file, makedirs whether the directory
\* was created.
write_last_processed_file(filename, record, filename_pattern, dir_exists, faults) ==
    IF ~fullmatch(filename_pattern, filename)
    THEN [exc |-> "ValueError: Invalid filename format", val |-> record, makedirs |-> FALSE]
    ELSE IF "write_record" \in faults
    THEN [exc |-> "OSError: Error writing file", val |-> record, makedirs |-> FALSE]
    ELSE [exc |-> OK, val |-> filename, makedirs |-> ~dir_exists]

\* FileManager.set_last_processed_file with the default pattern, as the
\* monitor calls it; val is the new content of the record file.
set_last_processed_file(filename, record, faults) ==
    IF ~fullmatch_filename_pattern(filename)
    THEN [exc |-> "ValueError: Invalid filename format", val |-> record]
    ELSE IF "write_record" \in faults
    THEN [exc |-> "OSError: Error writing file", val |-> record]
    ELSE Ret(filename)

----------------------------------------------------------------------------
(* SalesMonitor._get_files_since *)

\* A sort that is not stable: an item goes before the items of the same date.
RECURSIVE insert_sorted_before_equal(_, _)
insert_sorted_before_equal(f, sorted) ==
    IF sorted = <<>> THEN <<f>>
    ELSE IF ~DateLess(extract_date_from_filename(Head(sorted)).val,
                      extract_date_from_filename(f).val)
         THEN <<f>> \o sorted
         ELSE <<Head(sorted)>> \o insert_sorted_before_equal(f, Tail(sorted))

\* sorted(files.items(), key=date) is stable: an item goes after every item
\* already placed whose date is not greater.
RECURSIVE insert_sorted(_, _)
insert_sorted(f, sorted) ==
    IF sorted = <<>> THEN <<f>>
    ELSE IF DateLess(extract_date_from_filename(f).val,
                     extract_date_from_filename(Head(sorted)).val)
         THEN <<f>> \o sorted
         ELSE <<Head(sorted)>> \o insert_sorted(f, Tail(sorted))

RECURSIVE sorted_by_date(_)
sorted_by_date(files) ==
    IF files = <<>> THEN <<>>
    ELSE Bind(sorted_by_date(SubSeq(files, 1, Len(files) - 1)),
              LAMBDA sorted : insert_sorted(Last(files), sorted))

\* The filter with the comparison turned round (d < date).
newer_than_reversed(files, date) ==
    LET Older(f) == DateLess(extract_date_from_filename(f).val, date)
    IN  SelectSeq(files, Older)

\* files = {f: d for f, d in files.items() if d > date}
newer_than(files, date) ==
    LET Newer(f) == DateLess(date, extract_date_from_filename(f).val)
    IN  SelectSeq(files, Newer)

\* A discovery that, when a name of the listing makes it fail, still
\* returns the batches it could date.
_get_files_since_partial(listing, date, faults) ==
    LET IsCsv(f) == endswith_csv(f)
        HasDate(f) == f.ymd # <<>> /\ IsDate(f.ymd)
    IN  IF "listdir" \in faults THEN [exc |-> "FileNotFoundError", val |-> <<>>]
        ELSE Bind(SelectSeq(listing, IsCsv), LAMBDA csv :
             Bind(sorted_by_date(SelectSeq(csv, HasDate)), LAMBDA files :
                  [exc |-> IF \E i \in 1..Len(csv) :
                                 extract_date_from_filename(csv[i]).exc # OK
                           THEN "ValueError" ELSE OK,
                   val |-> IF date # None THEN newer_than(files, date) ELSE files]))

\* SalesMonitor._get_files_since.  val: the keys of the dict it returns, in
\* dict order.  An exception of the listing or of extract_date_from_filename
\* is caught and gives {}; exc is the exception caught (for the log).
_get_files_since(listing, date, faults) ==
    LET IsCsv(f) == endswith_csv(f)
        HasDate(f) == extract_date_from_filename(f).val # None
    IN  IF "listdir" \in faults THEN [exc |-> "FileNotFoundError", val |-> <<>>]
        ELSE Bind(SelectSeq(listing, IsCsv), LAMBDA csv :
             IF \E i \in 1..Len(csv) : extract_date_from_filename(csv[i]).exc # OK
             THEN [exc |-> "ValueError", val |-> <<>>]
             ELSE Bind(sorted_by_date(SelectSeq(csv, HasDate)), LAMBDA files :
                  Ret(IF date # None THEN newer_than(files, date) ELSE files)))

----------------------------------------------------------------------------
(* Batches and DataProcessor *)

AnomalyThreshold == 5000   \* a predictor of kind "high" flags sales above 500.0
WindowDays == 30           \* timedelta(days=30)
FirstDay == 103            \* the day number datetime.now() gives at the start

CATEGORY_MAPPING ==
    [c \in {"AA", "AB", "AC", "AD", "AE", "AF"} |->
        CASE c = "AA" -> "Carbonated Drink"
          [] c = "AB" -> "Plant-Based Drink"
          [] c = "AC" -> "Milkshake"
          [] c = "AD" -> "Fruit Juice"
          [] c = "AE" -> "Diet Drink"
          [] c = "AF" -> "Functional Beverage"]

CsvRow(date, region, code, product, sales, src) ==
    [Date |-> Cell(date), Region |-> region, Product_Category |-> code,
     Product |-> product, Sales |-> sales,
     Product_Category_Mapped |-> NaN, is_anomaly |-> NaN,
     src |-> src]    \* src: the file the row was read from (not a column)

CsvColumns == {"Date", "Region", "Product Category", "Product", "Sales"}

\* pd.read_csv(file_path): the rows the batch files hold.
read_csv(f) ==
    [columns |-> CsvColumns,
     rows |->
        IF f.stem = <<"b", "_">>
        THEN << CsvRow(FirstDay, "North", "AA", "cola", 2999, f),
                CsvRow(FirstDay - WindowDays, "South", "ZZ", "tea", 7000, f) >>
        ELSE IF f.ymd = <<2024, 1, 1>>
        THEN << CsvRow(FirstDay - WindowDays - 1, "North", "AA", "cola", 6000, f) >>
        ELSE IF f.ymd = <<2024, 1, 2>>
        THEN << CsvRow(FirstDay, "South", "AB", "oat", 1000, f) >>
        ELSE << CsvRow(FirstDay, "North", "AB", "soy", 2000, f) >>]

\* DataProcessor.map_categories: Series.map(dict) gives NaN for a code that
\* is no key of the dict.
map_categories(df) ==
    [columns |-> df.columns \cup {"Product Category Mapped"},
     rows |-> [i \in 1..Len(df.rows) |->
                [df.rows[i] EXCEPT !.Product_Category_Mapped =
                    IF df.rows[i].Product_Category \in DOMAIN CATEGORY_MAPPING
                    THEN Cell(CATEGORY_MAPPING[df.rows[i].Product_Category])
                    ELSE NaN]]]

\* pd.concat(frames, ignore_index=True)
RECURSIVE concat(_)
concat(frames) ==
    IF Len(frames) = 1 THEN frames[1]
    ELSE Bind(concat(Tail(frames)), LAMBDA rest :
              [columns |-> frames[1].columns \cup rest.columns,
               rows |-> frames[1].rows \o rest.rows])

\* The loop of create_first_dataframe / update_dataframe that loads the files.
load_files(file_names) ==
    [i \in 1..Len(file_names) |-> map_categories(read_csv(file_names[i]))]

----------------------------------------------------------------------------
(* ReportGenerator._detect_anomalies *)

\* The labels the rows of the batches carry.
Labels == {"Carbonated Drink", "Plant-Based Drink"}

\* What a predictor does with a partition.
PredictorKinds == {"high", "flat", "raises"}

\* The mappings label -> predictor the model artifact may hold.
Registries == UNION {[L -> PredictorKinds] : L \in SUBSET Labels}

\* The states of the model artifact: no file, a file joblib.load fails on,
\* a pickled object that is no dict, or a pickled dict.
ModelStores ==
    {[kind |-> k, models |-> <<>>] : k \in {"missing", "corrupt", "not_dict"}}
    \cup {[kind |-> "dict", models |-> m] : m \in Registries}

\* model.predict on one row of a partition: -1 marks an outlier.  A "high"
\* predictor answers -1 or 1, a "flat" one answers 0 for every row.
predict(model, sales) ==
    IF model = "flat" THEN 0
    ELSE IF model = "high" /\ sales > AnomalyThreshold THEN -1 ELSE 1

\* A default that fills only the cells that hold no value (fillna(0)).
zero_is_anomaly_fillna(df) ==
    [columns |-> df.columns \cup {"is_anomaly"},
     rows |-> [i \in 1..Len(df.rows) |->
                [df.rows[i] EXCEPT !.is_anomaly = IF @ = NaN THEN Cell(0) ELSE @]]]

\* df["is_anomaly"] = 0
zero_is_anomaly(df) ==
    [columns |-> df.columns \cup {"is_anomaly"},
     rows |-> [i \in 1..Len(df.rows) |-> [df.rows[i] EXCEPT !.is_anomaly = Cell(0)]]]

\* A turn of the loop that defaults the partition to 0 when predict raises.
detect_group_zero_on_raise(rows, category, models) ==
    IF category \notin DOMAIN models THEN rows
    ELSE [i \in 1..Len(rows) |->
            IF rows[i].Product_Category_Mapped = Cell(category)
            THEN [rows[i] EXCEPT !.is_anomaly =
                    Cell(IF models[category] # "raises"
                            /\ predict(models[category], rows[i].Sales) = -1 THEN 1 ELSE 0)]
            ELSE rows[i]]

\* A turn of the loop that flags every output other than 1 (preds != 1).
detect_group_not_one(rows, category, models) ==
    IF category \notin DOMAIN models THEN rows
    ELSE IF models[category] = "raises" THEN rows
    ELSE [i \in 1..Len(rows) |->
            IF rows[i].Product_Category_Mapped = Cell(category)
            THEN [rows[i] EXCEPT !.is_anomaly =
                    Cell(IF predict(models[category], rows[i].Sales) # 1 THEN 1 ELSE 0)]
            ELSE rows[i]]

\* A turn of the loop that moves the rows of the partition to the front of
\* the frame (as a concat of the groups would).
detect_group_partition_first(rows, category, models) ==
    IF category \notin DOMAIN models THEN rows
    ELSE IF models[category] = "raises" THEN rows
    ELSE LET InGroup(r) == r.Product_Category_Mapped = Cell(category)
             Outside(r) == r.Product_Category_Mapped # Cell(category)
             group == SelectSeq(rows, InGroup)
         IN  [i \in 1..Len(group) |->
                [group[i] EXCEPT !.is_anomaly =
                    Cell(IF predict(models[category], group[i].Sales) = -1 THEN 1 ELSE 0)]]
             \o SelectSeq(rows, Outside)

\* One turn of the loop over groupby("Product Category Mapped").groups.
detect_group(rows, category, models) ==
    IF category \notin DOMAIN models THEN rows
    ELSE IF models[category] = "raises" THEN rows
    ELSE [i \in 1..Len(rows) |->
            IF rows[i].Product_Category_Mapped = Cell(category)
            THEN [rows[i] EXCEPT !.is_anomaly =
                    Cell(IF predict(models[category], rows[i].Sales) = -1 THEN 1 ELSE 0)]
            ELSE rows[i]]

RECURSIVE detect_groups(_, _, _)
detect_groups(rows, categories, models) ==
    IF categories = {} THEN rows
    ELSE LET category == CHOOSE c \in categories : TRUE
         IN  Bind(detect_group(rows, category, models), LAMBDA rows1 :
                  detect_groups(rows1, categories \ {category}, models))

\* A pass that resets is_anomaly to 0 when the label column is missing.
_detect_anomalies_reset_on_skip(df, store) ==
    IF store.kind = "missing" THEN zero_is_anomaly(df)
    ELSE IF store.kind = "corrupt" THEN zero_is_anomaly(df)
    ELSE IF store.kind = "not_dict" \/ DOMAIN store.models = {} THEN zero_is_anomaly(df)
    ELSE IF "Product Category Mapped" \notin df.columns THEN zero_is_anomaly(df)
    ELSE Bind(IF "is_anomaly" \notin df.columns THEN zero_is_anomaly(df) ELSE df,
              LAMBDA df1 :
              LET mapped == {df1.rows[i].Product_Category_Mapped : i \in 1..Len(df1.rows)}
              IN  [df1 EXCEPT !.rows =
                     detect_groups(df1.rows, {c[1] : c \in mapped \ {NaN}}, store.models)])

\* ReportGenerator._detect_anomalies: the new report_dataframe.
_detect_anomalies(df, store) ==
    IF store.kind = "missing" THEN zero_is_anomaly(df)
    ELSE IF store.kind = "corrupt" THEN zero_is_anomaly(df)
    ELSE IF store.kind = "not_dict" \/ DOMAIN store.models = {} THEN zero_is_anomaly(df)
    ELSE Bind(IF "is_anomaly" \notin df.columns THEN zero_is_anomaly(df) ELSE df,
              LAMBDA df1 :
              LET mapped == {df1.rows[i].Product_Category_Mapped : i \in 1..Len(df1.rows)}
              IN  IF "Product Category Mapped" \notin df1.columns THEN df1
                  ELSE [df1 EXCEPT !.rows =
                         detect_groups(df1.rows, {c[1] : c \in mapped \ {NaN}},
                                       store.models)])

----------------------------------------------------------------------------
(* ReportGenerator.generate_report and save_report *)

RECURSIVE sum_sales(_)
sum_sales(rows) ==
    IF rows = <<>> THEN 0 ELSE Head(rows).Sales + sum_sales(Tail(rows))

\* Series.mean().round(2) of sales counted in tenths, as a count of
\* hundredths: the quotient 10 * total / n rounded half to even.
mean_round_2(total, n) ==
    LET q == (10 * total) \div n
        r == (10 * total) % n
    IN  IF 2 * r < n THEN q
        ELSE IF 2 * r > n THEN q + 1
        ELSE IF q % 2 = 0 THEN q ELSE q + 1

\* A total rounded to the nearest integer (Series.sum().round().astype(int)).
sum_round_int(total) ==
    IF total >= 0 THEN (total + 5) \div 10 ELSE -((-total + 5) \div 10)

\* Series.sum().astype(int) of sales counted in tenths: truncation toward 0.
sum_astype_int(total) ==
    IF total >= 0 THEN total \div 10 ELSE -((-total) \div 10)

\* The aggregates with a digest of the flagged rows of any day of the window.
aggregate_window_any_day(df_30, day) ==
    LET regions == {df_30[i].Region : i \in 1..Len(df_30)}
        labels == {df_30[i].Product_Category_Mapped : i \in 1..Len(df_30)} \ {NaN}
        OfRegion(g) == LET P(r) == r.Region = g IN SelectSeq(df_30, P)
        OfLabel(g) == LET P(r) == r.Product_Category_Mapped = g IN SelectSeq(df_30, P)
        IsAnomaly(r) == r.is_anomaly = Cell(1)
    IN  [region_report_mean |->
            [g \in regions |-> mean_round_2(sum_sales(OfRegion(g)), Len(OfRegion(g)))],
         beverage_report_total |->
            [g \in {l[1] : l \in labels} |-> sum_astype_int(sum_sales(OfLabel(Cell(g))))],
         beverage_report_mean |->
            [g \in {l[1] : l \in labels} |->
                mean_round_2(sum_sales(OfLabel(Cell(g))), Len(OfLabel(Cell(g))))],
         today_anomalies |->
            Bind(SelectSeq(df_30, IsAnomaly), LAMBDA today_anoms :
                 [total_anomalies |-> Len(today_anoms), records |-> today_anoms])]

\* The aggregates and the digest of generate_report (lines 205-230) over the
\* rows df_30 of the window.
aggregate_window(df_30, day) ==
    LET regions == {df_30[i].Region : i \in 1..Len(df_30)}
        labels == {df_30[i].Product_Category_Mapped : i \in 1..Len(df_30)} \ {NaN}
        OfRegion(g) == LET P(r) == r.Region = g IN SelectSeq(df_30, P)
        OfLabel(g) == LET P(r) == r.Product_Category_Mapped = g IN SelectSeq(df_30, P)
        IsTodayAnomaly(r) == r.is_anomaly = Cell(1) /\ r.Date = Cell(day)
    IN  [region_report_mean |->
            [g \in regions |-> mean_round_2(sum_sales(OfRegion(g)), Len(OfRegion(g)))],
         beverage_report_total |->
            [g \in {l[1] : l \in labels} |-> sum_astype_int(sum_sales(OfLabel(Cell(g))))],
         beverage_report_mean |->
            [g \in {l[1] : l \in labels} |->
                mean_round_2(sum_sales(OfLabel(Cell(g))), Len(OfLabel(Cell(g))))],
         today_anomalies |->
            Bind(SelectSeq(df_30, IsTodayAnomaly), LAMBDA today_anoms :
                 [total_anomalies |-> Len(today_anoms), records |-> today_anoms])]

\* A Date cell as read from a batch is NaN (an empty field), <<n>> (the text
\* of the date of day n) or NotADate (a text that is no date).
NotADate == <<"not", "a date">>

\* pd.to_datetime(df["Date"], errors="coerce") and .dt.date on one cell: NaT
\* (NaN here) for what is no date.
to_datetime(cell) == IF Len(cell) = 1 THEN cell ELSE NaN

\* The aggregation with a cutoff that is itself outside the window
\* (Date > cutoff).
aggregate_strict_cutoff(df, day) ==
    LET cutoff == day - WindowDays
        InWindow(r) == r.Date # NaN /\ r.Date[1] > cutoff
    IN  Bind(SelectSeq([i \in 1..Len(df.rows) |->
                          [df.rows[i] EXCEPT !.Date = to_datetime(@)]], InWindow),
             LAMBDA df_30 : aggregate_window(df_30, day))

\* The aggregation part of generate_report (lines 192-230) on day `day`: the
\* dates are parsed, the rows with a date on or after the cutoff are kept (a
\* comparison with NaT is False), then the aggregates are computed.
aggregate(df, day) ==
    LET cutoff == day - WindowDays
        InWindow(r) == r.Date # NaN /\ r.Date[1] >= cutoff
    IN  Bind(SelectSeq([i \in 1..Len(df.rows) |->
                          [df.rows[i] EXCEPT !.Date = to_datetime(@)]], InWindow),
             LAMBDA df_30 : aggregate_window(df_30, day))

\* ReportGenerator.generate_report; `fails` says whether the aggregation
\* raises (before report_dict is assigned).  val is the generator afterwards.
generate_report(rg, store, day, run_anomaly_detection, fails) ==
    Bind(IF run_anomaly_detection
         THEN [rg EXCEPT !.report_dataframe = _detect_anomalies(rg.report_dataframe, store)]
         ELSE rg,
         LAMBDA rg1 :
         IF fails THEN [exc |-> "Exception", val |-> rg1]
         ELSE Ret([rg1 EXCEPT !.report_dict = aggregate(rg1.report_dataframe, day)]))

\* json.dumps(report_dict, indent=4, default=str): the dates of the anomaly
\* records are written as their str().
json_dumps(report_dict) ==
    IF DOMAIN report_dict = {} THEN [json |-> report_dict]
    ELSE [json |-> [report_dict EXCEPT !.today_anomalies.records =
                        [i \in 1..Len(@) |-> [@[i] EXCEPT !.Date = [str |-> @]]]]]

\* ReportGenerator.save_report: val is the new content of the report file.
save_report(rg, old_content, faults) ==
    IF "save_report" \in faults THEN [exc |-> "OSError", val |-> old_content]
    ELSE Ret(json_dumps(rg.report_dict))

\* ReportGenerator.create_first_dataframe: val is the instance it returns.
create_first_dataframe(file_names, store, day, faults) ==
    IF "read_csv" \in faults THEN Raise("Exception")
    ELSE Bind([report_dataframe |-> concat(load_files(file_names)), report_dict |-> <<>>],
              LAMBDA instance :
              Ret(generate_report(instance, store, day, TRUE, "aggregate" \in faults).val))

\* An update that runs detection on the new rows only, before the concat.
update_dataframe_detect_delta(rg, file_names, store, day, faults) ==
    IF file_names # <<>> /\ "read_csv" \in faults THEN [exc |-> "Exception", val |-> rg]
    ELSE IF file_names = <<>> THEN Ret(rg)
    ELSE Bind([rg EXCEPT !.report_dataframe =
                  concat(<<rg.report_dataframe,
                           _detect_anomalies(concat(load_files(file_names)), store)>>)],
              LAMBDA merged :
              Ret(generate_report(merged, store, day, FALSE, "aggregate" \in faults).val))

\* An update that concatenates the new frames last batch first.
update_dataframe_last_batch_first(rg, file_names, store, day, faults) ==
    IF file_names # <<>> /\ "read_csv" \in faults THEN [exc |-> "Exception", val |-> rg]
    ELSE IF file_names = <<>> THEN Ret(rg)
    ELSE Bind([rg EXCEPT !.report_dataframe =
                  concat(<<rg.report_dataframe,
                           concat([i \in 1..Len(file_names) |->
                                     load_files(file_names)[Len(file_names) + 1 - i]])>>)],
              LAMBDA merged :
              Ret(generate_report(merged, store, day, TRUE, "aggregate" \in faults).val))

\* An update without the early return: it recalculates when handed no file.
update_dataframe_always_reports(rg, file_names, store, day, faults) ==
    IF file_names # <<>> /\ "read_csv" \in faults THEN [exc |-> "Exception", val |-> rg]
    ELSE Bind([rg EXCEPT !.report_dataframe =
                  IF file_names = <<>> THEN @
                  ELSE concat(<<rg.report_dataframe, concat(load_files(file_names))>>)],
              LAMBDA merged :
              Ret(generate_report(merged, store, day, TRUE, "aggregate" \in faults).val))

\* An update that puts the new rows before the rows of the Dataset.
update_dataframe_new_rows_first(rg, file_names, store, day, faults) ==
    IF file_names # <<>> /\ "read_csv" \in faults THEN [exc |-> "Exception", val |-> rg]
    ELSE IF file_names = <<>> THEN Ret(rg)
    ELSE Bind([rg EXCEPT !.report_dataframe =
                  concat(<<concat(load_files(file_names)), rg.report_dataframe>>)],
              LAMBDA merged :
              Ret(generate_report(merged, store, day, TRUE, "aggregate" \in faults).val))

\* ReportGenerator.update_dataframe: val is the generator afterwards.
update_dataframe(rg, file_names, store, day, faults) ==
    IF file_names # <<>> /\ "read_csv" \in faults THEN [exc |-> "Exception", val |-> rg]
    ELSE IF file_names = <<>> THEN Ret(rg)
    ELSE Bind([rg EXCEPT !.report_dataframe =
                  concat(<<rg.report_dataframe, concat(load_files(file_names))>>)],
              LAMBDA merged :
              Ret(generate_report(merged, store, day, TRUE, "aggregate" \in faults).val))

----------------------------------------------------------------------------
(* SalesMonitor *)

\* A handler works on a record w of what it can change:
\*   record_file, report_file, archive, all_files, report_generator,
\*   log (what it logged so far), exc (the exception now propagating, or OK).
Entry(msg) == [msg |-> msg, files |-> <<>>, exc |-> OK]

Logged(w, msg) == [w EXCEPT !.log = Append(@, Entry(msg))]

Raised(w, e) == [w EXCEPT !.exc = e]

\* A handler that catches only the errors of the operating system
\* (except OSError).
except_OSError(w, msg) ==
    IF w.exc \in {OK, "AttributeError", "ValueError", "Exception"} THEN w
    ELSE [w EXCEPT !.exc = OK, !.log = Append(@, [msg |-> msg, files |-> <<>>, exc |-> w.exc])]

\* except Exception as e: logger.exception(msg)
except_Exception(w, msg) ==
    IF w.exc = OK THEN w
    ELSE [w EXCEPT !.exc = OK, !.log = Append(@, [msg |-> msg, files |-> <<>>, exc |-> w.exc])]

\* dict.update: the new keys go after the keys the dict has.
RECURSIVE dict_update(_, _)
dict_update(keys, new_keys) ==
    IF new_keys = <<>> THEN keys
    ELSE dict_update(IF Head(new_keys) \in SeqToSet(keys) THEN keys
                     ELSE Append(keys, Head(new_keys)),
                     Tail(new_keys))

\* An archiving step without its try/except: a failure propagates.
_archive_old_report_raising(w, faults) ==
    IF "makedirs" \in faults THEN Raised(w, "OSError")
    ELSE IF w.report_file = None THEN w
    ELSE IF "copy2" \in faults THEN Raised(w, "OSError")
    ELSE Logged([w EXCEPT !.archive = Append(@, w.report_file)],
                "Archived previous JSON report")

\* SalesMonitor._archive_old_report.  No code of the repository writes
\* sales_report.csv, so only the JSON report is there to copy.
_archive_old_report(w, faults) ==
    IF "makedirs" \in faults THEN Logged(w, "Could not archive previous report")
    ELSE IF w.report_file = None THEN w
    ELSE IF "copy2" \in faults THEN Logged(w, "Could not archive previous report")
    ELSE Logged([w EXCEPT !.archive = Append(@, w.report_file)],
                "Archived previous JSON report")

\* The end of a cycle in the other order: set_last_processed_file, then
\* save_report().
save_and_advance_watermark_first(w, new_files, faults) ==
    Bind(set_last_processed_file(Last(new_files), w.record_file, faults), LAMBDA r :
    Bind([Logged(w, "Saving updated report...") EXCEPT !.record_file = r.val], LAMBDA w5 :
    IF r.exc # OK THEN Raised(w5, r.exc)
    ELSE Bind(save_report(w5.report_generator, w5.report_file, faults), LAMBDA s :
         IF s.exc # OK THEN Raised([w5 EXCEPT !.report_file = s.val], s.exc)
         ELSE Logged([w5 EXCEPT !.report_file = s.val], "Updated last processed file"))))

\* The end of a cycle: save_report(), then set_last_processed_file of the last
\* of new_files (lines 96-101).
save_and_advance(w, new_files, faults) ==
    Bind(save_report(w.report_generator, w.report_file, faults), LAMBDA s :
    Bind([Logged(w, "Saving updated report...") EXCEPT !.report_file = s.val], LAMBDA w5 :
    IF s.exc # OK THEN Raised(w5, s.exc)
    ELSE Bind(set_last_processed_file(Last(new_files), w5.record_file, faults), LAMBDA r :
         IF r.exc # OK THEN Raised([w5 EXCEPT !.record_file = r.val], r.exc)
         ELSE Logged([w5 EXCEPT !.record_file = r.val], "Updated last processed file"))))

\* update_dataframe(), generate_report(), then the end of the cycle
\* (lines 90-101).
update_and_report(w, new_files, store, day, faults) ==
    IF w.report_generator = None THEN Raised(w, "AttributeError")
    ELSE
    Bind(update_dataframe(w.report_generator, new_files, store, day, faults), LAMBDA u :
    IF u.exc # OK THEN Raised([w EXCEPT !.report_generator = u.val], u.exc)
    ELSE
    Bind(generate_report(u.val, store, day, TRUE, "aggregate" \in faults), LAMBDA g :
    Bind([w EXCEPT !.report_generator = g.val,
                   !.log = @ \o <<Entry("Updated report DataFrame shape"),
                                  Entry("Generating new sales report...")>>], LAMBDA w4 :
    IF g.exc # OK THEN Raised(w4, g.exc)
    ELSE save_and_advance(w4, new_files, faults))))

\* A cycle that archives after it has saved the new report.
process_candidates_archive_last(w, new_files, store, day, faults) ==
    Bind(update_and_report(
            [w EXCEPT !.all_files = dict_update(@, new_files),
                      !.log = @ \o <<[msg |-> "Found new files",
                                      files |-> new_files, exc |-> OK],
                                     Entry("Updating DataFrame with new data...")>>],
            new_files, store, day, faults), LAMBDA u :
    IF u.exc # OK THEN u ELSE _archive_old_report(u, faults))

\* The branch of SalesMonitor.process_new_files taken when new_files is not
\* empty (lines 84-102).
process_candidates(w, new_files, store, day, faults) ==
    Bind(_archive_old_report(
            [w EXCEPT !.all_files = dict_update(@, new_files),
                      !.log = Append(@, [msg |-> "Found new files",
                                         files |-> new_files, exc |-> OK])],
            faults), LAMBDA a :
    IF a.exc # OK THEN a
    ELSE Bind(Logged(a, "Updating DataFrame with new data..."), LAMBDA w2 :
         update_and_report(w2, new_files, store, day, faults)))

\* A cycle that archives the previous report before it looks at new_files.
process_or_skip_archive_first(w, new_files, store, day, faults) ==
    IF new_files # <<>>
    THEN process_candidates(w, new_files, store, day, faults)
    ELSE Logged(_archive_old_report(w, faults), "No new files detected")

\* if new_files: ... else: ... of SalesMonitor.process_new_files
process_or_skip(w, new_files, store, day, faults) ==
    IF new_files # <<>>
    THEN process_candidates(w, new_files, store, day, faults)
    ELSE Logged(w, "No new files detected")

\* What _get_files_since logs when it catches an exception.
listing_logged(w, found) ==
    IF found.exc = OK THEN w
    ELSE [w EXCEPT !.log = Append(@, [msg |-> "Error reading directory",
                                      files |-> <<>>, exc |-> found.exc])]

\* The try block of SalesMonitor.process_new_files
process_new_files_try(w0, listing, store, day, faults) ==
    Bind(get_last_processed_file(w0.record_file, faults), LAMBDA last :
    IF last.exc # OK THEN Raised(w0, last.exc)
    ELSE
    Bind(IF last.val # None THEN extract_date_from_filename(last.val) ELSE Ret(None),
         LAMBDA last_date :
    IF last_date.exc # OK THEN Raised(w0, last_date.exc)
    ELSE
    Bind(_get_files_since(listing, last_date.val, faults), LAMBDA found :
    Bind(listing_logged(w0, found), LAMBDA w1 :
         process_or_skip(w1, found.val, store, day, faults)))))

\* SalesMonitor.process_new_files
process_new_files(w, listing, store, day, faults) ==
    Bind([w EXCEPT !.log = <<Entry("Checking for new files to process...")>>,
                   !.exc = OK], LAMBDA w0 :
    Bind(process_new_files_try(w0, listing, store, day, faults), LAMBDA body :
         except_Exception(body, "Error while processing new files")))

\* create_first_dataframe(), generate_report(), save_report() of
\* SalesMonitor.fill (lines 121-124).
first_report(w, files, store, day, faults) ==
    Bind(create_first_dataframe(files, store, day, faults), LAMBDA c :
    IF c.exc # OK THEN Raised(w, c.exc)
    ELSE
    Bind(generate_report(c.val, store, day, TRUE, "aggregate" \in faults), LAMBDA g :
    Bind([w EXCEPT !.report_generator = g.val,
                   !.log = Append(@, Entry("Created initial report DataFrame"))],
         LAMBDA w3 :
    IF g.exc # OK THEN Raised(w3, g.exc)
    ELSE
    Bind(save_report(g.val, w3.report_file, faults), LAMBDA s :
         IF s.exc # OK THEN Raised([w3 EXCEPT !.report_file = s.val], s.exc)
         ELSE Logged([w3 EXCEPT !.report_file = s.val],
                     "Initial report generated successfully")))))

\* An initial load that records its first file as the watermark.
mark_and_load_first_file(w, files, store, day, faults) ==
    Bind(set_last_processed_file(Head(files), w.record_file, faults), LAMBDA r :
    IF r.exc # OK THEN Raised([w EXCEPT !.record_file = r.val], r.exc)
    ELSE Bind(Logged([w EXCEPT !.record_file = r.val], "Set last processed file"),
              LAMBDA w2 : first_report(w2, files, store, day, faults)))

\* if self.all_files: ... of SalesMonitor.fill: set_last_processed_file of the
\* last file, then the first report (lines 115-124).
mark_and_load(w, files, store, day, faults) ==
    Bind(set_last_processed_file(Last(files), w.record_file, faults), LAMBDA r :
    IF r.exc # OK THEN Raised([w EXCEPT !.record_file = r.val], r.exc)
    ELSE Bind(Logged([w EXCEPT !.record_file = r.val], "Set last processed file"),
              LAMBDA w2 : first_report(w2, files, store, day, faults)))

\* An initial load that saves an empty report when it finds no file.
fill_saving_empty_report(w, listing, store, day, faults) ==
    Bind(_get_files_since(listing, None, faults), LAMBDA found :
    Bind(listing_logged(Logged([w EXCEPT !.all_files = found.val],
                               "Loading all CSV files for initialization..."),
                        found), LAMBDA w0 :
    Bind(IF found.val = <<>>
         THEN Logged([w0 EXCEPT !.report_file = json_dumps(<<>>)],
                     "No CSV files found in the directory")
         ELSE mark_and_load(w0, found.val, store, day, faults), LAMBDA body :
         except_Exception(body, "Error during initial report generation"))))

\* SalesMonitor.fill
fill(w, listing, store, day, faults) ==
    Bind(_get_files_since(listing, None, faults), LAMBDA found :
    Bind(listing_logged(Logged([w EXCEPT !.all_files = found.val],
                               "Loading all CSV files for initialization..."),
                        found), LAMBDA w0 :
    Bind(IF found.val = <<>> THEN Logged(w0, "No CSV files found in the directory")
         ELSE mark_and_load(w0, found.val, store, day, faults), LAMBDA body :
         except_Exception(body, "Error during initial report generation"))))

\* SalesMonitor.__post_init__
post_init(w, listing, store, day, faults) ==
    Bind(fill([w EXCEPT !.log = <<Entry("Initializing SalesMonitor...")>>, !.exc = OK],
              listing, store, day, faults), LAMBDA w1 :
    Bind(get_last_processed_file(w1.record_file, faults), LAMBDA last :
    Bind(IF last.exc # OK THEN Raised(w1, last.exc) ELSE Logged(w1, "Last processed file"),
         LAMBDA body :
         except_Exception(body, "Error during SalesMonitor initialization"))))

----------------------------------------------------------------------------
(* The state machine *)

\* The model artifacts a monitor may run with: one that joblib.load fails on,
\* and a registry with a predictor that flags high sales and one that raises.
\* The artifact stays the same for the life of the directory.
MonitorModelStores ==
    { [kind |-> "corrupt", models |-> <<>>],
      [kind |-> "dict",
       models |-> [l \in Labels |-> IF l = "Carbonated Drink" THEN "high" ELSE "raises"]] }

World ==
    [record_file |-> record_file, report_file |-> report_file, archive |-> archive,
     all_files |-> all_files, report_generator |-> report_generator,
     log |-> log, exc |-> raised]

Becomes(w) ==
    /\ record_file' = w.record_file
    /\ report_file' = w.report_file
    /\ archive' = w.archive
    /\ all_files' = w.all_files
    /\ report_generator' = w.report_generator
    /\ log' = w.log
    /\ raised' = w.exc

RowCount == IF report_generator = None THEN 0
            ELSE Len(report_generator.report_dataframe.rows)

Init ==
    /\ directory = <<>>
    /\ record_file = None
    /\ report_file = None
    /\ archive = <<>>
    /\ model_store \in MonitorModelStores
    /\ today = FirstDay
    /\ all_files = <<>>
    /\ report_generator = None
    /\ pc = "new"
    /\ log = <<>>
    /\ raised = OK

\* pc = "returned": a handler has just returned and log holds what it logged;
\* the caller takes note of it before anything else happens.
Return ==
    /\ pc = "returned"
    /\ pc' = "idle"
    /\ log' = <<>>
    /\ UNCHANGED <<directory, record_file, report_file, archive, model_store, today,
                   all_files, report_generator, raised>>

\* The environment drops a file into the batch directory.
AddFile ==
    /\ pc # "returned"
    /\ Len(directory) < MaxDirLen
    /\ \E f \in FileNames \ SeqToSet(directory) : directory' = Append(directory, f)
    /\ UNCHANGED <<record_file, report_file, archive, model_store, today,
                   all_files, report_generator, pc, log, raised>>

\* SalesMonitor(directory, record_file_path): the first construction, or a
\* later one by a new run of the host program (the files on disk stay).
Construct ==
    /\ pc # "returned"
    /\ pc' = "returned"
    /\ \E faults \in Faults :
          \E w \in {post_init([World EXCEPT !.all_files = <<>>, !.report_generator = None],
                              directory, model_store, today, faults)} : Becomes(w)
    /\ UNCHANGED <<directory, model_store, today>>

\* An external trigger calls monitor.process_new_files()
ProcessNewFiles ==
    /\ pc = "idle"
    /\ RowCount < MaxRows
    /\ Len(archive) < MaxArchive
    /\ pc' = "returned"
    /\ \E faults \in Faults :
          \E w \in {process_new_files(World, directory, model_store, today, faults)} :
             Becomes(w)
    /\ UNCHANGED <<directory, model_store, today>>

Next == AddFile \/ Construct \/ ProcessNewFiles \/ Return

Spec == Init /\ [][Next]_vars

----------------------------------------------------------------------------
(* Cycles of a monitor without a Dataset, on arbitrary directories *)

MaxListing == 3       \* files of the directories discovery is tried on

\* The directory listings: sequences of distinct file names.
Listings ==
    {d \in UNION {[1..n -> FileNames] : n \in 0..MaxListing} :
        \A i, j \in 1..Len(d) : i # j => d[i] # d[j]}

\* The record files an initial load can have written on a directory: none,
\* or a name of the directory that embeds a date and passes the validation
\* of set_last_processed_file.
RecordFiles(d) ==
    {None} \cup {f \in SeqToSet(d) : /\ extract_date_from_filename(f).exc = OK
                                      /\ extract_date_from_filename(f).val # None
                                      /\ endswith_csv(f)
                                      /\ fullmatch_filename_pattern(f)}

\* A monitor whose initial load found nothing or failed after it wrote the
\* watermark (report_generator is None), on any directory.
InitDiscover ==
    /\ directory \in Listings
    /\ record_file \in RecordFiles(directory)
    /\ report_file = None
    /\ archive = <<>>
    /\ model_store \in MonitorModelStores
    /\ today = FirstDay
    /\ all_files = <<>>
    /\ report_generator = None
    /\ pc = "idle"
    /\ log = <<>>
    /\ raised = OK

NextDiscover == ProcessNewFiles \/ Return

SpecDiscover == InitDiscover /\ [][NextDiscover]_vars

----------------------------------------------------------------------------
(* Detection passes on arbitrary datasets *)

MaxDetectRows == 2    \* rows of the datasets a detection pass is tried on

\* The amounts of the rows: one below and one above AnomalyThreshold.
DetectSales == {1000, 6000}

\* Rows as read from a batch; the code "ZZ" is no key of CATEGORY_MAPPING.
DetectCsvRows ==
    {CsvRow(FirstDay, "North", c, "cola", x, None) : c \in {"AA", "AB", "ZZ"}, x \in DetectSales}

\* Frames as read from a batch, and the same after map_categories.
DetectLoaded ==
    LET raw == {[columns |-> CsvColumns, rows |-> r] :
                   r \in UNION {[1..n -> DetectCsvRows] : n \in 0..MaxDetectRows}}
    IN  raw \cup {map_categories(df) : df \in raw}

\* The datasets: the loaded frames, without a column is_anomaly or with one
\* that holds any mix of 0, 1 and NaN.
DetectFrames ==
    DetectLoaded \cup
    UNION { { [columns |-> df.columns \cup {"is_anomaly"},
               rows |-> [i \in 1..Len(df.rows) |-> [df.rows[i] EXCEPT !.is_anomaly = flags[i]]]] :
              flags \in [1..Len(df.rows) -> {Cell(0), Cell(1), NaN}] } :
            df \in DetectLoaded }

InitDetect ==
    /\ directory = <<>>
    /\ record_file = None
    /\ report_file = None
    /\ archive = <<>>
    /\ model_store \in ModelStores
    /\ today = FirstDay
    /\ all_files = <<>>
    /\ report_generator \in {[report_dataframe |-> df, report_dict |-> <<>>] : df \in DetectFrames}
    /\ pc = "idle"
    /\ log = <<>>
    /\ raised = OK

\* report_generator._detect_anomalies(model_path)
Detect ==
    /\ pc = "idle"
    /\ pc' = "returned"
    /\ report_generator' =
          [report_generator EXCEPT !.report_dataframe = _detect_anomalies(@, model_store)]
    /\ log' = <<Entry("Checking model path")>>
    /\ UNCHANGED <<directory, record_file, report_file, archive, model_store, today,
                   all_files, raised>>

\* The model artifact is replaced between two passes.
InstallModel ==
    /\ pc = "idle"
    /\ \E m \in ModelStores \ {model_store} : model_store' = m
    /\ UNCHANGED <<directory, record_file, report_file, archive, today,
                   all_files, report_generator, pc, log, raised>>

NextDetect == Detect \/ InstallModel \/ Return

SpecDetect == InitDetect /\ [][NextDetect]_vars

----------------------------------------------------------------------------
(* Merges into a Dataset, with any list of batches *)

MaxBatches == 3      \* batches one call of update_dataframe is handed
MaxMergeRows == 3    \* rows of a Dataset a merge is still tried on

\* The batches a cycle hands over: the names discovery and the watermark
\* file both accept.
MergeFiles ==
    {f \in FileNames : /\ f.ymd # <<>> /\ IsDate(f.ymd) /\ endswith_csv(f)
                       /\ fullmatch_filename_pattern(f)}

\* The lists of batches handed to update_dataframe.
MergeBatches == UNION {[1..n -> MergeFiles] : n \in 0..MaxBatches}

\* The Dataset was built by create_first_dataframe from one batch, with the
\* model artifact of that time; the artifact may be another one by now.
InitMerge ==
    /\ directory = <<>>
    /\ record_file = None
    /\ report_file = None
    /\ archive = <<>>
    /\ model_store \in ModelStores
    /\ today = FirstDay
    /\ all_files = <<>>
    /\ \E f \in MergeFiles, earlier \in ModelStores :
          report_generator = create_first_dataframe(<<f>>, earlier, FirstDay, {}).val
    /\ pc = "idle"
    /\ log = <<>>
    /\ raised = OK

\* report_generator.update_dataframe(directory_path, file_names); the log
\* entry names the files it was handed and what it raised.
UpdateDataframe ==
    /\ pc = "idle"
    /\ Len(report_generator.report_dataframe.rows) < MaxMergeRows
    /\ \E file_names \in MergeBatches, faults \in {{}, {"read_csv"}, {"aggregate"}} :
          \E r \in {update_dataframe(report_generator, file_names, model_store,
                                     today, faults)} :
             /\ report_generator' = r.val
             /\ log' = <<[msg |-> "Updating report DataFrame",
                          files |-> file_names, exc |-> r.exc]>>
    /\ pc' = "returned"
    /\ UNCHANGED <<directory, record_file, report_file, archive, model_store, today,
                   all_files, raised>>

NextMerge == UpdateDataframe \/ Return

SpecMerge == InitMerge /\ [][NextMerge]_vars

----------------------------------------------------------------------------
(* Reports on arbitrary datasets *)

MaxReportRows == 2    \* rows of the datasets a report is generated from
MaxFuture == 1        \* days after today a row may be dated

\* The Date cells of the rows: today, the first and the last day around the
\* cutoff, a day to come, a text that is no date, an empty field.
ReportDates ==
    {Cell(FirstDay + MaxFuture), Cell(FirstDay), Cell(FirstDay - WindowDays),
     Cell(FirstDay - WindowDays - 1), NotADate, NaN}

\* The rows: a sale above AnomalyThreshold (600.0) in the North, one below
\* it and with a fraction (299.9) in the South, each with either flag.
ReportRows ==
    {[CsvRow(FirstDay, s[1], s[2], "cola", s[3], None) EXCEPT !.Date = d, !.is_anomaly = a] :
        d \in ReportDates,
        s \in {<<"North", "AA", 6000>>, <<"South", "AB", 2999>>},
        a \in {Cell(0), Cell(1)}}

\* The datasets: mapped, and with the column is_anomaly of an earlier pass.
ReportFrames ==
    {LET df == map_categories([columns |-> CsvColumns, rows |-> r])
     IN  [df EXCEPT !.columns = @ \cup {"is_anomaly"}] :
        r \in UNION {[1..n -> ReportRows] : n \in 0..MaxReportRows}}

InitReport ==
    /\ directory = <<>>
    /\ record_file = None
    /\ report_file = None
    /\ archive = <<>>
    /\ model_store \in MonitorModelStores
    /\ today = FirstDay
    /\ all_files = <<>>
    /\ report_generator \in {[report_dataframe |-> df, report_dict |-> <<>>] : df \in ReportFrames}
    /\ pc = "idle"
    /\ log = <<>>
    /\ raised = OK

\* report_generator.generate_report(run_anomaly_detection=...)
GenerateReport ==
    /\ pc = "idle"
    /\ \E run_anomaly_detection \in BOOLEAN :
          \E r \in {generate_report(report_generator, model_store, today,
                                    run_anomaly_detection, FALSE)} :
             /\ report_generator' = r.val
             /\ log' = <<[msg |-> "Report generation completed",
                          files |-> <<>>, exc |-> r.exc]>>
    /\ pc' = "returned"
    /\ UNCHANGED <<directory, record_file, report_file, archive, model_store, today,
                   all_files, raised>>

NextReport == GenerateReport \/ Return

SpecReport == InitReport /\ [][NextReport]_vars

----------------------------------------------------------------------------
(* The watermark store on its own, with any pattern *)

\* The names handed to the store: those of the batch directory and one that
\* starts with a blank, " s_2024-01-01.csv".
StoreNames == FileNames \cup {Name(<<" ", "s", "_">>, <<2024, 1, 1>>, ".csv")}

\* No record file yet.
InitStore ==
    /\ directory = <<>>
    /\ record_file = None
    /\ report_file = None
    /\ archive = <<>>
    /\ model_store \in {[kind |-> "missing", models |-> <<>>]}
    /\ today = FirstDay
    /\ all_files = <<>>
    /\ report_generator = None
    /\ pc = "idle"
    /\ log = <<>>
    /\ raised = OK

\* FileManager.set_last_processed_file(filename, file_path, filename_pattern)
SetLastProcessedFile ==
    /\ pc = "idle"
    /\ \E filename \in StoreNames, filename_pattern \in FilenamePatterns,
          faults \in {{}, {"write_record"}},
          dir_exists \in IF record_file = None THEN BOOLEAN ELSE {TRUE} :
          \E r \in {write_last_processed_file(filename, record_file, filename_pattern,
                                              dir_exists, faults)} :
             /\ record_file' = r.val
             /\ raised' = r.exc
             /\ log' = <<[msg |-> "set_last_processed_file", files |-> <<filename>>,
                          exc |-> r.exc, filename_pattern |-> filename_pattern,
                          makedirs |-> r.makedirs]>>
    /\ pc' = "returned"
    /\ UNCHANGED <<directory, report_file, archive, model_store, today, all_files,
                   report_generator>>

\* FileManager.get_last_processed_file(file_path); files holds what it
\* returned, <<>> for None.
GetLastProcessedFile ==
    /\ pc = "idle"
    /\ \E faults \in {{}, {"read_record"}} :
          \E r \in {get_last_processed_file(record_file, faults)} :
             /\ raised' = r.exc
             /\ log' = <<[msg |-> "get_last_processed_file",
                          files |-> IF r.val = None THEN <<>> ELSE <<r.val>>,
                          exc |-> r.exc, filename_pattern |-> "", makedirs |-> FALSE]>>
    /\ pc' = "returned"
    /\ UNCHANGED <<directory, record_file, report_file, archive, model_store, today,
                   all_files, report_generator>>

NextStore == SetLastProcessedFile \/ GetLastProcessedFile \/ Return

SpecStore == InitStore /\ [][NextStore]_vars

----------------------------------------------------------------------------
(* What the log of the handler call that just returned shows *)

HasMsg(l, msg) == \E i \in 1..Len(l) : l[i].msg = msg

IsCycleLog(l) == l # <<>> /\ l[1].msg = "Checking for new files to process..."

IsInitLog(l) == l # <<>> /\ l[1].msg = "Initializing SalesMonitor..."

\* The exceptions the except clause that logs msg caught.
Caught(l, msg) == {l[i].exc : i \in {j \in 1..Len(l) : l[j].msg = msg}}

\* list(new_files.keys()) as the cycle logged it, <<>> when it logged none.
Candidates(l) ==
    IF HasMsg(l, "Found new files")
    THEN l[CHOOSE i \in 1..Len(l) : l[i].msg = "Found new files"].files
    ELSE <<>>

CycleSucceeded(l) == IsCycleLog(l) /\ HasMsg(l, "Updated last processed file")

InitSucceeded(l) == IsInitLog(l) /\ HasMsg(l, "Initial report generated successfully")

Pos(s, x) == CHOOSE i \in 1..Len(s) : s[i] = x

DatasetRows(rg) == IF rg = None THEN <<>> ELSE rg.report_dataframe.rows

----------------------------------------------------------------------------
(* Claims *)

\* C1: in an update cycle the watermark is written only after save_report
\* has returned: a cycle in which update_dataframe, generate_report or
\* save_report failed leaves the record file as it was, and a cycle that
\* changed the record file has saved the report of the merged dataset.
C1_WatermarkOnlyAfterSave ==
    [][ (pc' = "returned" /\ IsCycleLog(log')) =>
          /\ Caught(log', "Error while processing new files")
                \cap {"AttributeError", "Exception", "OSError"} # {}
             => record_file' = record_file
          /\ record_file' # record_file
             => /\ HasMsg(log', "Saving updated report...")
                /\ report_file' = json_dumps(report_generator'.report_dict)
                /\ record_file' = Last(Candidates(log')) ]_vars

\* C1 witness: a cycle merged a candidate, save_report failed, and the record
\* file still names the batch of the initial load.
C1_Witness ==
    /\ pc = "returned"
    /\ IsCycleLog(log)
    /\ HasMsg(log, "Saving updated report...")
    /\ "OSError" \in Caught(log, "Error while processing new files")
    /\ record_file # None
    /\ record_file # Last(Candidates(log))
    /\ \E i \in 1..Len(DatasetRows(report_generator)) :
          DatasetRows(report_generator)[i].src = Last(Candidates(log))

\* C2: whatever the sequence of initializations and cycles, aborted ones
\* included, the rows of a batch are in the Dataset at most once.
C2_NoBatchMergedTwice ==
    \A f \in FileNames :
        Cardinality({i \in 1..Len(DatasetRows(report_generator)) :
                        DatasetRows(report_generator)[i].src = f})
            <= Len(read_csv(f).rows)

\* C3: in the initial load the watermark is persisted last: when building
\* the initial dataset, computing the report or saving it failed, the record
\* file is as it was before the construction.
C3_FillWatermarkLast ==
    [][ (/\ pc' = "returned"
         /\ IsInitLog(log')
         /\ Caught(log', "Error during initial report generation")
               \cap {"Exception", "OSError"} # {})
        => record_file' = record_file ]_vars

\* A batch of the directory: a .csv name that embeds an existing date.
DatedBatch(f) == f.ext = ".csv" /\ f.ymd # <<>> /\ IsDate(f.ymd)

\* C4: the candidates of a cycle that could list the directory are exactly
\* the dated .csv batches of the directory whose date is strictly greater
\* than the date of the watermark (a batch of the watermark's date is none).
C4_CandidatesStrictlyNewer ==
    [][ (/\ pc' = "returned"
         /\ IsCycleLog(log')
         /\ record_file # None
         /\ HasMsg(log', "Found new files") \/ HasMsg(log', "No new files detected")
         /\ "FileNotFoundError" \notin Caught(log', "Error reading directory"))
        => SeqToSet(Candidates(log')) =
              {f \in SeqToSet(directory) : DatedBatch(f) /\ DateLess(record_file.ymd, f.ymd)}
      ]_vars

\* The files a handler call that returned processed, in its order: the
\* listing of the initial load, or the candidates of the cycle.
Processed == IF IsInitLog(log) THEN all_files ELSE Candidates(log)

\* The number of rows the batches of files hold.
RECURSIVE RowsHeld(_)
RowsHeld(files) ==
    IF files = <<>> THEN 0 ELSE Len(read_csv(Head(files)).rows) + RowsHeld(Tail(files))

\* The rows the last merge appended to the Dataset, given the files merged.
Appended(files) ==
    LET rows == DatasetRows(report_generator)
    IN  SubSeq(rows, Len(rows) - RowsHeld(files) + 1, Len(rows))

C7_NoCandidatesNoOp ==
    [][ (pc' = "returned" /\ IsCycleLog(log') /\ ~HasMsg(log', "Found new files"))
        => /\ UNCHANGED <<report_generator, report_file, record_file, archive, all_files>>
           /\ \A i \in 1..Len(log') :
                 log'[i].msg \notin {"Archived previous JSON report",
                                     "Could not archive previous report",
                                     "Updating DataFrame with new data...",
                                     "Updated report DataFrame shape",
                                     "Generating new sales report...",
                                     "Saving updated report...",
                                     "Updated last processed file"} ]_vars

\* C7 witness: a cycle of a monitor that holds a Dataset and a saved report
\* found no new file, though the directory holds a batch it never merged
\* (one of the watermark's date).
C7_Witness ==
    /\ pc = "returned"
    /\ IsCycleLog(log)
    /\ HasMsg(log, "No new files detected")
    /\ report_generator # None
    /\ report_file # None
    /\ record_file # None
    /\ \E f \in SeqToSet(directory) \ SeqToSet(all_files) : f.ymd = record_file.ymd

\* C8: no construction and no cycle lets an exception escape to its caller,
\* whichever step failed: every handler call returns with no exception
\* raised.
C8_NoErrorPropagates == raised = OK

\* C8 witness: a cycle that caught an error has returned to its caller.
C8_Witness ==
    /\ pc = "returned"
    /\ IsCycleLog(log)
    /\ Caught(log, "Error while processing new files") # {}
    /\ raised = OK

\* The fault points of _archive_old_report.
ArchiveFaults == {"makedirs", "copy2"}

\* C9: a cycle in which a step of the archiving fails leaves the Dataset,
\* the report, the watermark and all_files, and returns, exactly as the same
\* cycle does when the archiving succeeds.
C9_ArchivingBestEffort ==
    pc = "idle" =>
       \A F \in Faults :
          F \cap ArchiveFaults # {} =>
             \A a \in {process_new_files(World, directory, model_store, today, F)},
                b \in {process_new_files(World, directory, model_store, today,
                                         F \ ArchiveFaults)} :
                /\ a.report_generator = b.report_generator
                /\ a.report_file = b.report_file
                /\ a.record_file = b.record_file
                /\ a.all_files = b.all_files
                /\ a.exc = b.exc
                /\ Caught(a.log, "Error while processing new files")
                      = Caught(b.log, "Error while processing new files")

\* C9 witness: a cycle could not archive the previous report, and merged the
\* new batch, saved the new report and advanced the watermark all the same.
C9_Witness ==
    /\ pc = "returned"
    /\ HasMsg(log, "Could not archive previous report")
    /\ CycleSucceeded(log)
    /\ archive = <<>>
    /\ record_file = Last(Candidates(log))
    /\ report_file = json_dumps(report_generator.report_dict)

\* A model source detection cannot use: missing, failing to load, holding
\* no mapping, or holding an empty mapping.
UnusableModelSource(store) ==
    \/ store.kind \in {"missing", "corrupt", "not_dict"}
    \/ store.kind = "dict" /\ DOMAIN store.models = {}

\* C10: with an unusable model source a detection pass sets is_anomaly to 0
\* on every row, whatever the row's sales and the value it held, and changes
\* nothing else of the rows.
C10_UnusableModelZeroesFlags ==
    [][ (pc' = "returned" /\ UnusableModelSource(model_store))
        => /\ "is_anomaly" \in report_generator'.report_dataframe.columns
           /\ report_generator'.report_dataframe.rows =
                 [i \in 1..Len(report_generator.report_dataframe.rows) |->
                    [report_generator.report_dataframe.rows[i]
                        EXCEPT !.is_anomaly = Cell(0)]] ]_vars

\* C10 witness: after a pass with an unusable model source the dataset holds
\* a row with sales above the threshold of the predictors, flagged 0.
C10_Witness ==
    /\ pc = "returned"
    /\ UnusableModelSource(model_store)
    /\ \E i \in 1..Len(DatasetRows(report_generator)) :
          /\ DatasetRows(report_generator)[i].Sales > AnomalyThreshold
          /\ DatasetRows(report_generator)[i].is_anomaly = Cell(0)

\* The labels whose predictor raises, and those whose predictor returns, in
\* a registry detection can use.
RaisingLabels(store) == {l \in DOMAIN store.models : store.models[l] = "raises"}

WorkingLabels(store) == {l \in DOMAIN store.models : store.models[l] # "raises"}

\* What a working predictor makes of a row: 1 for the sentinel -1, else 0.
Predicted(store, row) ==
    Cell(IF predict(store.models[row.Product_Category_Mapped[1]], row.Sales) = -1
         THEN 1 ELSE 0)

\* C11: in a pass where the predictor of a category raises, the rows of that
\* category keep the flag they had (0 when the Dataset had no flag column),
\* and the rows of every category with a working predictor get the flag the
\* predictor gives them.
C11_PartialFailureIsolation ==
    [][ (/\ pc' = "returned"
         /\ ~UnusableModelSource(model_store)
         /\ RaisingLabels(model_store) # {})
        => \A i \in 1..Len(report_generator.report_dataframe.rows) :
              LET old == report_generator.report_dataframe.rows[i]
                  new == report_generator'.report_dataframe.rows[i]
              IN  /\ old.Product_Category_Mapped \in {Cell(l) : l \in RaisingLabels(model_store)}
                     => new.is_anomaly =
                           IF "is_anomaly" \in report_generator.report_dataframe.columns
                           THEN old.is_anomaly ELSE Cell(0)
                  /\ old.Product_Category_Mapped \in {Cell(l) : l \in WorkingLabels(model_store)}
                     => new.is_anomaly = Predicted(model_store, old) ]_vars

\* C11 witness: after a pass with a raising and a working predictor, a row
\* of the raising category still holds the flag 1 and a row of the working
\* category with sales above the threshold is flagged.
C11_Witness ==
    /\ pc = "returned"
    /\ ~UnusableModelSource(model_store)
    /\ \E i, j \in 1..Len(DatasetRows(report_generator)) :
          LET x == DatasetRows(report_generator)[i]
              y == DatasetRows(report_generator)[j]
          IN  /\ x.Product_Category_Mapped \in {Cell(l) : l \in RaisingLabels(model_store)}
              /\ x.is_anomaly = Cell(1)
              /\ y.Product_Category_Mapped \in {Cell(l) : l \in WorkingLabels(model_store)}
              /\ y.Sales > AnomalyThreshold
              /\ y.is_anomaly = Cell(1)

\* C12: after a pass, no row whose category has no predictor in the registry
\* of that pass, or whose predictor raised in it, is flagged as an anomaly.
C12_FailuresDegradeToNoAnomaly ==
    pc = "returned" =>
       \A i \in 1..Len(DatasetRows(report_generator)) :
          LET row == DatasetRows(report_generator)[i]
          IN  (/\ row.Product_Category_Mapped # NaN
               /\ row.Product_Category_Mapped[1] \notin WorkingLabels(model_store))
              => row.is_anomaly # Cell(1)

\* C13: whenever the monitor holds a Dataset (a detection pass followed its
\* last load or merge), every row holds is_anomaly 0 or 1, never a missing
\* value.
C13_FlagsMaterialized ==
    \A i \in 1..Len(DatasetRows(report_generator)) :
       DatasetRows(report_generator)[i].is_anomaly \in {Cell(0), Cell(1)}

\* C14: in a detection pass on a usable registry, a row of a category whose
\* predictor returns normally gets is_anomaly 1 when the predictor's output
\* for it is -1 and 0 for every other output, whatever the row held before.
C14_FlagIffSentinel ==
    [][ (pc' = "returned" /\ ~UnusableModelSource(model_store))
        => \A i \in 1..Len(report_generator.report_dataframe.rows) :
              LET old == report_generator.report_dataframe.rows[i]
                  new == report_generator'.report_dataframe.rows[i]
              IN  (/\ old.Product_Category_Mapped # NaN
                   /\ old.Product_Category_Mapped[1] \in WorkingLabels(model_store))
                  => LET out == predict(model_store.models[old.Product_Category_Mapped[1]],
                                        old.Sales)
                     IN  /\ out = -1 => new.is_anomaly = Cell(1)
                         /\ out # -1 => new.is_anomaly = Cell(0) ]_vars

\* A pass has left a row a "flat" predictor answered 0 for unflagged, next
\* to a row a "high" predictor answered -1 for.
C14_Witness ==
    /\ pc = "returned"
    /\ model_store.kind = "dict"
    /\ \E i, j \in 1..Len(DatasetRows(report_generator)) :
          LET x == DatasetRows(report_generator)[i]
              y == DatasetRows(report_generator)[j]
          IN  /\ x.Product_Category_Mapped # NaN
              /\ x.Product_Category_Mapped[1] \in DOMAIN model_store.models
              /\ model_store.models[x.Product_Category_Mapped[1]] = "flat"
              /\ x.Sales > AnomalyThreshold
              /\ x.is_anomaly = Cell(0)
              /\ y.Product_Category_Mapped # NaN
              /\ y.Product_Category_Mapped[1] \in DOMAIN model_store.models
              /\ model_store.models[y.Product_Category_Mapped[1]] = "high"
              /\ y.is_anomaly = Cell(1)

\* The rows of the batches of a list, in the order of the list and, within
\* a batch, in the order of the file.
RECURSIVE IncomingRows(_)
IncomingRows(file_names) ==
    IF file_names = <<>> THEN <<>>
    ELSE map_categories(read_csv(Head(file_names))).rows \o IncomingRows(Tail(file_names))

\* C15: an update that merged batches recomputes the flags of the rows the
\* Dataset held before it: for each category with a working predictor in
\* the registry of this update, they are what that registry predicts.
C15_DetectionIsGlobal ==
    [][ (/\ pc' = "returned"
         /\ log'[1].exc = OK
         /\ log'[1].files # <<>>
         /\ ~UnusableModelSource(model_store))
        => \A i \in 1..Len(report_generator.report_dataframe.rows) :
              LET old == report_generator.report_dataframe.rows[i]
              IN  (/\ old.Product_Category_Mapped # NaN
                   /\ old.Product_Category_Mapped[1] \in WorkingLabels(model_store))
                  => report_generator'.report_dataframe.rows[i].is_anomaly
                        = Predicted(model_store, old) ]_vars

\* An update has merged batches into a Dataset whose first row, held from
\* before, is of a category the registry has a "high" predictor for, and
\* that row is flagged.
C15_Witness ==
    /\ pc = "returned"
    /\ log[1].exc = OK
    /\ log[1].files # <<>>
    /\ model_store.kind = "dict"
    /\ Len(DatasetRows(report_generator)) > Len(IncomingRows(log[1].files))
    /\ LET row == DatasetRows(report_generator)[1]
       IN  /\ row.Product_Category_Mapped # NaN
           /\ row.Product_Category_Mapped[1] \in DOMAIN model_store.models
           /\ model_store.models[row.Product_Category_Mapped[1]] = "high"
           /\ row.Sales > AnomalyThreshold
           /\ row.is_anomaly = Cell(1)

\* Rows with the column is_anomaly left out of the comparison.
StripFlags(rows) == [i \in 1..Len(rows) |-> [rows[i] EXCEPT !.is_anomaly = NaN]]

\* C16: after update_dataframe the rows the Dataset held are a prefix of the
\* Dataset, in the same order and unchanged but for is_anomaly; when the
\* call merged, the incoming rows follow them in batch order and file order,
\* and nothing else does.
C16_MergesAppendOnly ==
    [][ pc' = "returned"
        => LET old == StripFlags(report_generator.report_dataframe.rows)
               new == StripFlags(report_generator'.report_dataframe.rows)
           IN  /\ Len(new) >= Len(old)
               /\ SubSeq(new, 1, Len(old)) = old
               /\ log'[1].exc = OK
                  => SubSeq(new, Len(old) + 1, Len(new))
                        = StripFlags(IncomingRows(log'[1].files)) ]_vars

\* An update has merged two different batches: the Dataset ends with the
\* rows of the second one, after rows it held before.
C16_Witness ==
    /\ pc = "returned"
    /\ log[1].exc = OK
    /\ Len(log[1].files) >= 2
    /\ log[1].files[1] # log[1].files[2]
    /\ Len(DatasetRows(report_generator)) > Len(IncomingRows(log[1].files))
    /\ Last(DatasetRows(report_generator)).src = Last(log[1].files)

\* C17: update_dataframe with an empty list of batches leaves the Dataset
\* (rows, order, every column, is_anomaly included) and the in-memory
\* report as they were.
C17_EmptyMergeIsNoOp ==
    [][ (pc' = "returned" /\ log'[1].files = <<>>)
        => /\ report_generator'.report_dataframe = report_generator.report_dataframe
           /\ report_generator'.report_dict = report_generator.report_dict ]_vars

\* An update handed no batch has returned, and the Dataset still holds a
\* flag that the registry of now would compute otherwise.
C17_Witness ==
    /\ pc = "returned"
    /\ log[1].files = <<>>
    /\ ~UnusableModelSource(model_store)
    /\ \E i \in 1..Len(DatasetRows(report_generator)) :
          LET row == DatasetRows(report_generator)[i]
          IN  /\ row.Product_Category_Mapped # NaN
              /\ row.Product_Category_Mapped[1] \in WorkingLabels(model_store)
              /\ row.is_anomaly # Predicted(model_store, row)

\* update_dataframe(first) and then update_dataframe(second), both without
\* a failure and under one registry: the Dataset afterwards.
MergedInTwoCalls(rg, first, second, store, day) ==
    Bind(update_dataframe(rg, first, store, day, {}).val, LAMBDA rg1 :
         update_dataframe(rg1, second, store, day, {}).val.report_dataframe)

\* C18: merging a list of batches in one call gives the Dataset (the same
\* rows in the same order) that merging a front part of the list and then
\* the rest gives, wherever the list is cut: [A, B] then [C] is [A, B, C].
C18_MergeAssociative ==
    [][ (pc' = "returned" /\ log'[1].exc = OK)
        => \A k \in 0..Len(log'[1].files) :
              report_generator'.report_dataframe
                 = MergedInTwoCalls(report_generator,
                                    SubSeq(log'[1].files, 1, k),
                                    SubSeq(log'[1].files, k + 1, Len(log'[1].files)),
                                    model_store, today) ]_vars

\* One call has merged three different batches A, B, C into a Dataset that
\* held rows before.
C18_Witness ==
    /\ pc = "returned"
    /\ log[1].exc = OK
    /\ Len(log[1].files) = 3
    /\ Cardinality({log[1].files[i] : i \in 1..3}) = 3
    /\ Len(DatasetRows(report_generator)) > Len(IncomingRows(log[1].files))
    /\ DatasetRows(report_generator)[1].src # log[1].files[1]

\* The rows dated from as_of_date - 30 days on, days to come included.
WithinLast30(rows, day) ==
    LET Dated(r) == r.Date \in {Cell(d) : d \in (day - WindowDays)..(day + MaxFuture)}
    IN  SelectSeq(rows, Dated)

\* C19: generate_report returns normally, and its three aggregates are those
\* of exactly the rows dated on or after today - 30 days: the 30th day back
\* and days to come count, the 31st day back and rows without a readable
\* date do not.
C19_WindowInclusiveCutoff ==
    [][ pc' = "returned"
        => LET expected ==
                  aggregate_window(WithinLast30(report_generator'.report_dataframe.rows, today),
                                   today)
               report == report_generator'.report_dict
           IN  /\ log'[1].exc = OK
               /\ report.region_report_mean = expected.region_report_mean
               /\ report.beverage_report_total = expected.beverage_report_total
               /\ report.beverage_report_mean = expected.beverage_report_mean ]_vars

\* A report was generated from a row of the North dated 30 days back and a
\* row of the South dated 31 days back or carrying no date: only the North
\* is reported.  Another such report counts a row dated after today.
C19_Witness ==
    /\ pc = "returned"
    /\ Len(DatasetRows(report_generator)) = 2
    /\ LET x == DatasetRows(report_generator)[1]
           y == DatasetRows(report_generator)[2]
       IN  /\ x.Region = "North"
           /\ x.Date \in {Cell(today - WindowDays), Cell(today + MaxFuture)}
           /\ y.Region = "South"
           /\ y.Date \in {Cell(today - WindowDays - 1), NotADate}
    /\ DOMAIN report_generator.report_dict.region_report_mean = {"North"}
    /\ report_generator.report_dict.beverage_report_total = [g \in {"Carbonated Drink"} |-> 600]

\* C20: the digest of generate_report holds exactly the rows flagged 1 and
\* dated today, in the order of the Dataset: total_anomalies is their
\* number and the length of records; rows flagged on another day are not
\* in it; without such a row it is {total_anomalies: 0, records: []}.
C20_SameDayDigest ==
    [][ pc' = "returned"
        => LET IsTodayAnomaly(r) == r.is_anomaly = Cell(1) /\ r.Date = Cell(today)
               expected == SelectSeq(report_generator'.report_dataframe.rows, IsTodayAnomaly)
               digest == report_generator'.report_dict.today_anomalies
           IN  /\ digest.records = expected
               /\ digest.total_anomalies = Len(expected)
               /\ digest.total_anomalies = Len(digest.records)
               /\ expected = <<>> => digest = [total_anomalies |-> 0, records |-> <<>>] ]_vars

\* A report counts one anomaly of today while the Dataset holds another
\* flagged row, dated on another day of the window.
C20_Witness ==
    /\ pc = "returned"
    /\ report_generator.report_dict.today_anomalies.total_anomalies = 1
    /\ \E i \in 1..Len(DatasetRows(report_generator)) :
          LET row == DatasetRows(report_generator)[i]
          IN  /\ row.is_anomaly = Cell(1)
              /\ row.Date \in {Cell(today - WindowDays), Cell(today + MaxFuture)}

\* The windowed sales of one category, in tenths.
WindowedSalesOf(rows, day, label) ==
    LET OfLabel(r) == r.Product_Category_Mapped = Cell(label)
    IN  sum_sales(SelectSeq(WithinLast30(rows, day), OfLabel))

\* C21: each per-category total of the report is the sum of the windowed
\* sales of the category with its fraction cut off, never rounded up: sales
\* that sum to 299.9 are reported as 299.
C21_TotalTruncated ==
    [][ pc' = "returned"
        => \A label \in DOMAIN report_generator'.report_dict.beverage_report_total :
              LET total == report_generator'.report_dict.beverage_report_total[label]
                  sales == WindowedSalesOf(report_generator'.report_dataframe.rows,
                                           today, label)
              IN  /\ 10 * total <= sales
                  /\ sales < 10 * total + 10
                  /\ sales = 2999 => total = 299 ]_vars

\* A report whose only windowed sale of 'Plant-Based Drink' is one of 299.9
\* gives 299 as the total of the category.
C21_Witness ==
    /\ pc = "returned"
    /\ WindowedSalesOf(DatasetRows(report_generator), today, "Plant-Based Drink") = 2999
    /\ "Plant-Based Drink" \in DOMAIN report_generator.report_dict.beverage_report_total
    /\ report_generator.report_dict.beverage_report_total["Plant-Based Drink"] = 299

\* C22: when a report was built from a Dataset with windowed rows of an
\* unmapped category code (null label), the per-category total and mean
\* reports hold a bucket besides the mapped labels, with their sales.
C22_UnmappedBucketReported ==
    (pc = "returned" /\ (InitSucceeded(log) \/ CycleSucceeded(log)))
    => LET windowed == WithinLast30(DatasetRows(report_generator), today)
           report == report_generator.report_dict
       IN  (\E i \in 1..Len(windowed) : windowed[i].Product_Category_Mapped = NaN)
           => /\ \E g \in DOMAIN report.beverage_report_total : g \notin Labels
              /\ \E g \in DOMAIN report.beverage_report_mean : g \notin Labels

\* The call that just returned: a successful write, a rejected write, a read.
WroteRecord ==
    pc = "returned" /\ log # <<>> /\ log[1].msg = "set_last_processed_file" /\ log[1].exc = OK

\* C23: after set_last_processed_file(name) succeeded for a name matching
\* the pattern in force, get_last_processed_file() returns exactly name.
C23_WatermarkRoundTrip ==
    WroteRecord
    => /\ fullmatch(log[1].filename_pattern, log[1].files[1])
       /\ get_last_processed_file(record_file, {}) = Ret(log[1].files[1])

\* C24: a write with a name that does not match the pattern raises
\* ValueError and leaves the store as it was: the record holds what it held
\* (or is still absent) and no parent directory was created.
C24_InvalidNameLeavesStore ==
    [][ (/\ pc' = "returned"
         /\ log'[1].msg = "set_last_processed_file"
         /\ ~fullmatch(log'[1].filename_pattern, log'[1].files[1]))
        => /\ raised' = "ValueError: Invalid filename format"
           /\ record_file' = record_file
           /\ get_last_processed_file(record_file', {}) = get_last_processed_file(record_file, {})
           /\ ~log'[1].makedirs ]_vars

\* A write of a name the default pattern rejects was refused while the
\* record held a name.
C24_Witness ==
    /\ pc = "returned"
    /\ log[1].msg = "set_last_processed_file"
    /\ log[1].filename_pattern = "default"
    /\ ~fullmatch("default", log[1].files[1])
    /\ raised = "ValueError: Invalid filename format"
    /\ record_file # None

WatermarkDate(record) ==
    IF record = None THEN None ELSE extract_date_from_filename(strip(record)).val

\* C26: the files of the directory whose name embeds no parseable date are
\* ignored: a cycle that could list the directory finds the candidates, in
\* the order, it would find in the directory without those files.
C26_UndatedFilesIgnored ==
    [][ (/\ pc' = "returned"
         /\ IsCycleLog(log')
         /\ HasMsg(log', "Found new files") \/ HasMsg(log', "No new files detected")
         /\ "FileNotFoundError" \notin Caught(log', "Error reading directory"))
        => /\ \A i \in 1..Len(Candidates(log')) : DatedBatch(Candidates(log')[i])
           /\ Candidates(log') =
                 _get_files_since(SelectSeq(directory, DatedBatch),
                                  WatermarkDate(record_file), {}).val ]_vars

\* C27: a cycle whose discovery failed on the listing finds no candidate and
\* ends as a no-op: Dataset, report, archive and watermark are as before
\* and nothing is raised to the caller.
C27_ListingFailureIsNoOp ==
    [][ (/\ pc' = "returned"
         /\ IsCycleLog(log')
         /\ Caught(log', "Error reading directory") # {})
        => /\ Candidates(log') = <<>>
           /\ HasMsg(log', "No new files detected")
           /\ report_generator' = report_generator
           /\ report_file' = report_file
           /\ record_file' = record_file
           /\ archive' = archive
           /\ all_files' = all_files
           /\ raised' = OK ]_vars

\* A cycle of a monitor with a Dataset could not list the directory, which
\* held a batch newer than the watermark.
C27_Witness ==
    /\ pc = "returned"
    /\ IsCycleLog(log)
    /\ Caught(log, "Error reading directory") = {"FileNotFoundError"}
    /\ report_generator # None
    /\ record_file # None
    /\ \E i \in 1..Len(directory) :
          DatedBatch(directory[i]) /\ DateLess(record_file.ymd, directory[i].ymd)

\* C28: a construction that finds no watermark and no batch in the directory
\* leaves the empty state: no watermark is written, no Dataset is created,
\* no report is saved or archived, and nothing is raised.
C28_EmptyInitIsStable ==
    [][ (/\ pc' = "returned"
         /\ IsInitLog(log')
         /\ record_file = None
         /\ \A i \in 1..Len(directory) : ~DatedBatch(directory[i]))
        => /\ HasMsg(log', "No CSV files found in the directory")
           /\ record_file' = None
           /\ report_generator' = None
           /\ all_files' = <<>>
           /\ report_file' = report_file
           /\ archive' = archive
           /\ raised' = OK ]_vars

\* A monitor was constructed on an empty directory without a watermark:
\* there is no record, no Dataset and no report.
C28_Witness ==
    /\ pc = "returned"
    /\ IsInitLog(log)
    /\ HasMsg(log, "No CSV files found in the directory")
    /\ directory = <<>>
    /\ record_file = None
    /\ report_generator = None
    /\ report_file = None

\* C29: a pass under a loaded, non-empty registry over a Dataset without the
\* column "Product Category Mapped" changes nothing but is_anomaly: the
\* column is added with 0 on every row when absent and kept as it is when
\* present.
C29_NoLabelColumnSkipsDetection ==
    [][ (/\ pc' = "returned"
         /\ ~UnusableModelSource(model_store)
         /\ "Product Category Mapped" \notin report_generator.report_dataframe.columns)
        => LET old == report_generator.report_dataframe
               new == report_generator'.report_dataframe
           IN  /\ new.columns = old.columns \cup {"is_anomaly"}
               /\ Len(new.rows) = Len(old.rows)
               /\ \A i \in 1..Len(old.rows) :
                     new.rows[i] =
                        [old.rows[i] EXCEPT !.is_anomaly =
                            IF "is_anomaly" \in old.columns THEN @ ELSE Cell(0)] ]_vars

\* A pass under a registry with a "high" predictor has returned on a Dataset
\* without the label column that still holds a flag 1 next to a missing one.
C29_Witness ==
    /\ pc = "returned"
    /\ model_store.kind = "dict"
    /\ \E l \in DOMAIN model_store.models : model_store.models[l] = "high"
    /\ "Product Category Mapped" \notin report_generator.report_dataframe.columns
    /\ \E i, j \in 1..Len(DatasetRows(report_generator)) :
          /\ DatasetRows(report_generator)[i].is_anomaly = Cell(1)
          /\ DatasetRows(report_generator)[i].Sales < AnomalyThreshold
          /\ DatasetRows(report_generator)[j].is_anomaly = NaN

\* C30: a cycle of a monitor that was initialized without batches (no
\* Dataset, no watermark) and now finds batches, with nothing of the
\* environment failing, merges them into a Dataset, saves a report and sets
\* the watermark to the latest of them.
C30_EmptyInitRecovers ==
    [][ (/\ pc' = "returned"
         /\ IsCycleLog(log')
         /\ report_generator = None
         /\ record_file = None
         /\ Candidates(log') # <<>>
         /\ ~HasMsg(log', "Could not archive previous report")
         /\ Caught(log', "Error while processing new files") \subseteq {"AttributeError"})
        => /\ report_generator' # None
           /\ report_file' # None
           /\ record_file' = Last(Candidates(log')) ]_vars

\* C31: a cycle that archived has copied the report that was on disk when
\* the cycle started: the archive grows by exactly that report, never by
\* the report the cycle itself saves.
C31_ArchiveHoldsPreviousReport ==
    [][ (/\ pc' = "returned"
         /\ IsCycleLog(log')
         /\ HasMsg(log', "Archived previous JSON report"))
        => /\ report_file # None
           /\ archive' = Append(archive, report_file)
           /\ report_file' # report_file => Last(archive') # report_file' ]_vars

\* A cycle has archived and then saved a report that differs from the copy
\* it archived.
C31_Witness ==
    /\ pc = "returned"
    /\ CycleSucceeded(log)
    /\ HasMsg(log, "Archived previous JSON report")
    /\ archive # <<>>
    /\ Last(archive) # report_file

\* C32: a detection pass, whatever branch it takes, leaves the number of
\* rows, their order and every field but is_anomaly as they were, adds no
\* column but is_anomaly, and does not touch the model artifact.
C32_DetectionChangesOnlyFlags ==
    [][ (pc' = "returned" /\ HasMsg(log', "Checking model path"))
        => LET old == report_generator.report_dataframe
               new == report_generator'.report_dataframe
           IN  /\ Len(new.rows) = Len(old.rows)
               /\ StripFlags(new.rows) = StripFlags(old.rows)
               /\ new.columns \ {"is_anomaly"} = old.columns \ {"is_anomaly"}
               /\ report_generator'.report_dict = report_generator.report_dict
               /\ model_store' = model_store ]_vars

\* A pass has flagged a row of a category with a "high" predictor that
\* stands after a row of a category the registry has no predictor for.
C32_Witness ==
    /\ pc = "returned"
    /\ HasMsg(log, "Checking model path")
    /\ model_store.kind = "dict"
    /\ Len(DatasetRows(report_generator)) = 2
    /\ LET x == DatasetRows(report_generator)[1]
           y == DatasetRows(report_generator)[2]
       IN  /\ x.Product_Category_Mapped # NaN
           /\ x.Product_Category_Mapped[1] \notin DOMAIN model_store.models
           /\ y.Product_Category_Mapped # NaN
           /\ y.Product_Category_Mapped[1] \in DOMAIN model_store.models
           /\ model_store.models[y.Product_Category_Mapped[1]] = "high"
           /\ y.is_anomaly = Cell(1)

\* C33: every candidate of a cycle has a name the default pattern of the
\* watermark write accepts, so a cycle that merged its candidates and saved
\* the report, with no failure of the record file itself, ends with the
\* watermark at its last candidate.
C33_CandidateNamesPassValidation ==
    [][ (/\ pc' = "returned"
         /\ IsCycleLog(log')
         /\ HasMsg(log', "Saving updated report...")
         /\ Caught(log', "Error while processing new files")
               \subseteq {"ValueError: Invalid filename format"})
        => /\ \A i \in 1..Len(Candidates(log')) :
                 fullmatch_filename_pattern(Candidates(log')[i])
           /\ record_file' = Last(Candidates(log')) ]_vars

\* The batches whose rows the Dataset holds.
MergedBatches == {DatasetRows(report_generator)[i].src :
                     i \in 1..Len(DatasetRows(report_generator))}

====
